---- MODULE Spec2Model ----
(***************************************************************************)
(* Model of post_archiver.py: the NPF content-block renderer               *)
(* (_process_single_block), the layout composer (parse_api_content) and    *)
(* the reblog-chain assembler (save_post_to_file).                         *)
(*                                                                         *)
(* HTML is modelled as a sequence of tokens, one token per tag-delimited   *)
(* piece the code appends.  A token is [tag, blk, val]:                    *)
(*   tag  the piece of markup ("<ul>", "li", "p", "</ul>", ...);           *)
(*   blk  the index of the content block whose text / url the piece        *)
(*        carries (the block being rendered when it was appended), or for  *)
(*        a row container the first surviving index of its row; -1 for     *)
(*        pieces appended after the rows (final list close, disclosure);   *)
(*   val  a number printed in the piece (column count, percentage, total). *)
(***************************************************************************)
EXTENDS Integers, Sequences, FiniteSets, TLC

\* ----------------------------------------------------------------- bounds
MaxBlocks == 3

\* ------------------------------------------------------------ small helpers
Tok(tag, blk, val) == [tag |-> tag, blk |-> blk, val |-> val]

Range(s) == {s[k] : k \in DOMAIN s}

RECURSIVE SetMin(_)
SetMin(S) ==
    LET x == CHOOSE y \in S : TRUE
    IN  IF S = {x} THEN x
        ELSE LET m == SetMin(S \ {x}) IN IF x < m THEN x ELSE m

\* min(relevant_indices)
Min(s) == SetMin(Range(s))

RECURSIVE SortedSeq(_)
\* sorted(S)
SortedSeq(S) ==
    IF S = {} THEN <<>>
    ELSE LET m == SetMin(S) IN <<m>> \o SortedSeq(S \ {m})

\* [i for i in s if i in set]
InSet(s, set) == SelectSeq(s, LAMBDA i : i \in set)

\* list(range(n))
RangeList(n) == [k \in 1..n |-> k - 1]

\* active_list_type is None
NoList == ""

OpenTag(l) == IF l = "ul" THEN "<ul>" ELSE "<ol>"
CloseTag(l) == IF l = "ul" THEN "</ul>" ELSE "</ol>"

\* ------------------------------------------------------------ block records
\* A content block: type, subtype, the urls of its media list, and for a poll
\* its client_id ("" when absent) and the client ids of its answers.
Blk(type, subtype, media) ==
    [type |-> type, subtype |-> subtype, media |-> media,
     client_id |-> "", answers |-> <<>>]

PollBlk(client_id, answers) ==
    [type |-> "poll", subtype |-> "none", media |-> <<>>,
     client_id |-> client_id, answers |-> answers]

\* ------------------------------------------------------ poll-result fetching
\* What the side-channel call does, as the code can observe it:
\*   exc          requests.get or response.json() raises
\*   status_code  HTTP status of the response
\*   meta_status  data['meta']['status']
\*   shape        data['response']['results'] is "missing", "null" (None),
\*                a "list" (any non-mapping) or a "map"
\*   numeric      every tally of the map is a number (else sum() raises)
\*   tally        the map answer client id -> votes
Response(exc, status_code, meta_status, shape, numeric, tally) ==
    [exc |-> exc, status_code |-> status_code, meta_status |-> meta_status,
     shape |-> shape, numeric |-> numeric, tally |-> tally]

EmptyMap == [x \in {} |-> 0]

RECURSIVE SumValues(_)
\* sum(votes_map.values())
SumValues(m) ==
    IF DOMAIN m = {} THEN 0
    ELSE LET k == CHOOSE x \in DOMAIN m : TRUE
         IN  m[k] + SumValues([x \in DOMAIN m \ {k} |-> m[x]])

\* The variables votes_map and total_votes after the fetch.  kind is "map"
\* when votes_map is a dict, "None" / "list" when line 163 bound it to a
\* value without .get and sum() then raised into the except clause.
FetchVotes(blog_name, post_id, poll_client_id, api_key, resp) ==
    LET untouched == [kind |-> "map", votes_map |-> EmptyMap, total_votes |-> 0]
    IN  IF ~(blog_name # "" /\ post_id # "" /\ poll_client_id # "" /\ api_key)
        THEN untouched
        ELSE IF resp.exc THEN untouched
        ELSE IF resp.status_code # 200 THEN untouched
        ELSE IF resp.meta_status # 200 THEN untouched
        ELSE IF resp.shape = "missing" THEN untouched
        ELSE IF resp.shape = "null"
            THEN [kind |-> "None", votes_map |-> EmptyMap, total_votes |-> 0]
        ELSE IF resp.shape = "list"
            THEN [kind |-> "list", votes_map |-> EmptyMap, total_votes |-> 0]
        ELSE IF ~resp.numeric
            THEN [kind |-> "map", votes_map |-> resp.tally, total_votes |-> 0]
        ELSE [kind |-> "map", votes_map |-> resp.tally,
              total_votes |-> SumValues(resp.tally)]

\* f"{x:.0f}" for x = num/den >= 0: round to nearest, ties to even
RoundHalfEven(num, den) ==
    LET q == num \div den
        r == num % den
    IN  IF 2 * r > den THEN q + 1
        ELSE IF 2 * r < den THEN q
        ELSE IF q % 2 = 1 THEN q + 1 ELSE q

\* Percentage with the quotient truncated: int(votes / total_votes * 100)
PercentageTruncated(votes, total_votes) ==
    IF total_votes > 0 THEN (100 * votes) \div total_votes ELSE 0

\* percentage = (votes / total_votes) * 100 if total_votes > 0 else 0.0,
\* as printed by {percentage:.0f}
Percentage(votes, total_votes) ==
    IF total_votes > 0 THEN RoundHalfEven(100 * votes, total_votes) ELSE 0

\* votes_map.get(client_id, 0)
VotesOf(votes_map, client_id) ==
    IF client_id \in DOMAIN votes_map THEN votes_map[client_id] ELSE 0

\* Lines 174-202: the markup of a poll whose fetch left f = [kind, votes_map,
\* total_votes].  raised: an exception leaves the function (votes_map.get on
\* a value that is not a dict).
PollMarkup(answers, idx, f) ==
    LET items == [k \in DOMAIN answers |->
                    Tok("poll-li", idx,
                        Percentage(VotesOf(f.votes_map, answers[k]), f.total_votes))]
        options == IF answers # <<>>
                   THEN <<Tok("<ul poll-options>", idx, 0)>> \o items
                        \o <<Tok("</ul poll-options>", idx, 0)>>
                   ELSE <<>>
        total == IF f.total_votes > 0
                 THEN <<Tok("poll-total-votes", idx, f.total_votes)>>
                 ELSE <<>>
    IN  IF answers # <<>> /\ f.kind # "map"
        THEN [html |-> <<>>, raised |-> TRUE]
        ELSE [html |-> <<Tok("<div poll-block>", idx, 0),
                         Tok("poll-question", idx, 0)>>
                       \o options \o total
                       \o <<Tok("</div poll-block>", idx, 0)>>,
              raised |-> FALSE]

\* The poll branch of _process_single_block: the fetch, then the markup
RenderPoll(block, idx, blog_name, post_id, api_key, resp) ==
    PollMarkup(block.answers, idx,
               FetchVotes(blog_name, post_id, block.client_id, api_key, resp))

\* ---------------------------------------------------------- span formatter
\* A formatting span: offsets start < end into the text and a type
Span(start, end, type) == [start |-> start, end |-> end, type |-> type]

\* The types with an entry in tags (line 104)
InTags(fmt_type) == fmt_type \in {"bold", "italic", "small", "strikethrough", "link"}

\* A piece of text_parts: an opening or closing tag put at offset at, or the
\* escaped text raw_text[at:to]
Part(kind, type, at, to) == [kind |-> kind, type |-> type, at |-> at, to |-> to]

\* markers = defaultdict(list): no offset has a list yet
NoMarkers == [x \in {} |-> <<>>]

\* markers[index], created empty when absent
MarkersAt(markers, index) == IF index \in DOMAIN markers THEN markers[index] ELSE <<>>

\* markers[index] = list
SetMarkers(markers, index, list) ==
    [x \in DOMAIN markers \cup {index} |-> IF x = index THEN list ELSE markers[x]]

\* Lines 102-108, one iteration: the opening tag appended to the list of the
\* start offset, the closing tag inserted at the front of the list of the end
\* offset
MarkSpan(markers, fmt) ==
    IF InTags(fmt.type)
    THEN LET m1 == SetMarkers(markers, fmt.start,
                       Append(MarkersAt(markers, fmt.start),
                              Part("open", fmt.type, fmt.start, fmt.start)))
         IN  SetMarkers(m1, fmt.end,
                        <<Part("close", fmt.type, fmt.end, fmt.end)>>
                        \o MarkersAt(m1, fmt.end))
    ELSE markers

RECURSIVE JoinFrom(_, _, _, _)
\* Lines 110-115: for each marked offset in ascending order the text since the
\* last one, then the offset's tags; at the end the rest of the text
JoinFrom(markers, offsets, last_index, text_len) ==
    IF offsets = <<>> THEN <<Part("text", "", last_index, text_len)>>
    ELSE LET index == Head(offsets)
         IN  <<Part("text", "", last_index, index)>> \o markers[index]
             \o JoinFrom(markers, Tail(offsets), index, text_len)

TextParts(markers, text_len) == JoinFrom(markers, SortedSeq(DOMAIN markers), 0, text_len)

\* --------------------------------------------------------- block renderer
IsListItem(subtype) == subtype \in {"ordered-list-item", "unordered-list-item"}

\* 'ul' if 'unordered' in subtype else 'ol'
ListTag(subtype) == IF subtype = "unordered-list-item" THEN "ul" ELSE "ol"

\* heading1, heading2, quote, indented, chat, quirky
InTagMap(subtype) ==
    subtype \in {"heading1", "heading2", "quote", "indented", "chat", "quirky"}

\* Lines 93-96: the close of the open list before a block that is no list item
CloseBefore(block, idx, active) ==
    IF active # NoList /\ ~IsListItem(block.subtype)
    THEN <<Tok(CloseTag(active), idx, 0)>>
    ELSE <<>>

ActiveAfterClose(block, active) ==
    IF active # NoList /\ ~IsListItem(block.subtype) THEN NoList ELSE active

\* RenderText without line 129: a list of the other kind is opened while the
\* open one is never closed
RenderTextNoCloseOnSwitch(block, idx, active) ==
    IF InTagMap(block.subtype)
    THEN [html |-> <<Tok(block.subtype, idx, 0)>>, active |-> active]
    ELSE IF IsListItem(block.subtype)
    THEN LET list_tag == ListTag(block.subtype)
         IN  IF active # list_tag
             THEN [html |-> <<Tok(OpenTag(list_tag), idx, 0), Tok("li", idx, 0)>>,
                   active |-> list_tag]
             ELSE [html |-> <<Tok("li", idx, 0)>>, active |-> active]
    ELSE [html |-> <<Tok("p", idx, 0)>>, active |-> active]

\* Lines 123-134: the wrapping of a text block's (formatted) text
RenderText(block, idx, active) ==
    IF InTagMap(block.subtype)
    THEN [html |-> <<Tok(block.subtype, idx, 0)>>, active |-> active]
    ELSE IF IsListItem(block.subtype)
    THEN LET list_tag == ListTag(block.subtype)
         IN  IF active # list_tag
             THEN [html |-> (IF active # NoList
                             THEN <<Tok(CloseTag(active), idx, 0)>> ELSE <<>>)
                            \o <<Tok(OpenTag(list_tag), idx, 0), Tok("li", idx, 0)>>,
                   active |-> list_tag]
             ELSE [html |-> <<Tok("li", idx, 0)>>, active |-> active]
    ELSE [html |-> <<Tok("p", idx, 0)>>, active |-> active]

\* The result of the text branch: t is what RenderText made of the block
TextResult(pre, t) ==
    [html |-> pre \o t.html, media |-> <<>>, active |-> t.active, raised |-> FALSE]

\* The result of the poll branch: p is what RenderPoll made of the block
PollResult(pre, act, active, p) ==
    IF p.raised
    THEN [html |-> <<>>, media |-> <<>>, active |-> active, raised |-> TRUE]
    ELSE [html |-> pre \o p.html, media |-> <<>>, active |-> act, raised |-> FALSE]

\* _process_single_block raising on a block type it does not know
ProcessSingleBlockStrict(block, idx, active, blog_name, post_id, api_key, resp) ==
    LET pre == CloseBefore(block, idx, active)
        act == ActiveAfterClose(block, active)
    IN  IF block.type = "text"
        THEN TextResult(pre, RenderText(block, idx, act))
        ELSE IF block.type = "image" /\ block.media # <<>>
        THEN [html |-> pre \o <<Tok("img", idx, 0)>>, media |-> <<block.media[1]>>,
              active |-> act, raised |-> FALSE]
        ELSE IF block.type = "poll"
        THEN PollResult(pre, act, active,
                        RenderPoll(block, idx, blog_name, post_id, api_key, resp))
        ELSE [html |-> <<>>, media |-> <<>>, active |-> active, raised |-> TRUE]

\* _process_single_block: html and media returned, the list context left in
\* active_list_type_ref[0], and whether the call raised instead of returning.
\* A call that raises never reaches line 204, so the context is unchanged.
ProcessSingleBlock(block, idx, active, blog_name, post_id, api_key, resp) ==
    LET pre == CloseBefore(block, idx, active)
        act == ActiveAfterClose(block, active)
    IN  IF block.type = "text"
        THEN TextResult(pre, RenderText(block, idx, act))
        ELSE IF block.type = "image" /\ block.media # <<>>
        THEN [html |-> pre \o <<Tok("img", idx, 0)>>, media |-> <<block.media[1]>>,
              active |-> act, raised |-> FALSE]
        ELSE IF block.type = "poll"
        THEN PollResult(pre, act, active,
                        RenderPoll(block, idx, blog_name, post_id, api_key, resp))
        ELSE [html |-> pre, media |-> <<>>, active |-> act, raised |-> FALSE]

\* --------------------------------------------------------- layout composer
\* A layout block: type "rows" (display: the rows, each a list of block
\* indices; truncate_after, NoTruncate when absent) or "ask" (blocks: the
\* indices of the ask).
NoTruncate == -1

RowsLayout(display, truncate_after) ==
    [type |-> "rows", display |-> display, truncate_after |-> truncate_after,
     blocks |-> <<>>]

AskLayout(blocks) ==
    [type |-> "ask", display |-> <<>>, truncate_after |-> NoTruncate,
     blocks |-> blocks]

\* next((l for l in layout_blocks if l.get('type') == t), None) is not None
HasLayout(layout_blocks, t) == \E k \in DOMAIN layout_blocks : layout_blocks[k].type = t

\* next((l for l in layout_blocks if l.get('type') == t), None)
FirstLayout(layout_blocks, t) ==
    layout_blocks[SetMin({k \in DOMAIN layout_blocks : layout_blocks[k].type = t})]

\* indices_to_process: None or a list of indices
NoIndices == [none |-> TRUE, list |-> <<>>]
Indices(list) == [none |-> FALSE, list |-> list]

\* What every call of one parse_api_content shares
Ctx(all_content_blocks, blog_name, post_id, api_key, resp) ==
    [blocks |-> all_content_blocks, blog_name |-> blog_name, post_id |-> post_id,
     api_key |-> api_key, resp |-> resp]

\* html_parts.append(result['html']); media_list.extend(result['media'])
Extended(acc, r) ==
    [html |-> acc.html \o r.html, media |-> acc.media \o r.media,
     active |-> r.active, raised |-> r.raised]

RECURSIVE RenderSeq(_, _, _)
\* result = _process_single_block(all_content_blocks[index], ...) for each
\* index of idxs in turn, the results' html concatenated and media extended;
\* acc is [html, media, active, raised].  An exception ends the loop.
RenderSeq(ctx, idxs, acc) ==
    IF idxs = <<>> \/ acc.raised THEN acc
    ELSE RenderSeq(ctx, Tail(idxs),
                   Extended(acc, ProcessSingleBlock(ctx.blocks[Head(idxs) + 1], Head(idxs),
                                                    acc.active, ctx.blog_name, ctx.post_id,
                                                    ctx.api_key, ctx.resp)))

\* Folded with max in place of min
FoldedByMax(relevant_indices, truncate_after) ==
    truncate_after # NoTruncate /\ -SetMin({-i : i \in Range(relevant_indices)}) > truncate_after

\* min(relevant_indices) > last_visible_idx
Folded(relevant_indices, truncate_after) ==
    truncate_after # NoTruncate /\ Min(relevant_indices) > truncate_after

\* One iteration of the loop over rows_layout['display'] (lines 220-236).
\* st is [html_before, html_after, media, active, raised, emitted]; emitted
\* logs the html each row produced, in the order the rows were rendered.
RowAppended(st, relevant_indices, folded, r) ==
    LET first == relevant_indices[1]
        n == Len(relevant_indices)
        current_row_html ==
            IF n > 1
            THEN <<Tok("<div image-row>", first, n)>> \o r.html
                 \o <<Tok("</div>", first, 0)>>
            ELSE r.html
    IN  IF r.raised THEN [st EXCEPT !.raised = TRUE]
        ELSE [html_before |-> IF folded THEN st.html_before
                              ELSE st.html_before \o current_row_html,
              html_after |-> IF folded THEN st.html_after \o current_row_html
                             ELSE st.html_after,
              media |-> st.media \o r.media,
              active |-> r.active,
              raised |-> FALSE,
              emitted |-> st.emitted \o current_row_html]

\* Lines 221-225: the row's blocks rendered in the list context st.active
RowRendered(ctx, relevant_indices, truncate_after, st) ==
    IF relevant_indices = <<>> THEN st
    ELSE RowAppended(st, relevant_indices, Folded(relevant_indices, truncate_after),
                     RenderSeq(ctx, relevant_indices,
                               [html |-> <<>>, media |-> <<>>, active |-> st.active,
                                raised |-> FALSE]))

RowStep(ctx, row_data, indices_set, truncate_after, st) ==
    RowRendered(ctx, InSet(row_data, indices_set), truncate_after, st)

RECURSIVE RowsLoop(_, _, _, _, _)
RowsLoop(ctx, display, indices_set, truncate_after, st) ==
    IF display = <<>> \/ st.raised THEN st
    ELSE RowsLoop(ctx, Tail(display), indices_set, truncate_after,
                  RowStep(ctx, Head(display), indices_set, truncate_after, st))

\* Line 240: html_before_truncate.append(result['html']), r the loop's results
BeforeAppended(st, r) ==
    IF r.raised THEN [st EXCEPT !.raised = TRUE]
    ELSE [html_before |-> st.html_before \o r.html,
          html_after |-> st.html_after,
          media |-> st.media \o r.media,
          active |-> r.active,
          raised |-> FALSE,
          emitted |-> st.emitted \o r.html]

\* NoRowsLoop iterating over sorted(set(indices_to_process))
NoRowsLoopSorted(ctx, indices_list, st) ==
    BeforeAppended(st, RenderSeq(ctx, SortedSeq(Range(indices_list)),
                                 [html |-> <<>>, media |-> <<>>, active |-> st.active,
                                  raised |-> FALSE]))

\* Lines 237-240: no rows layout, the indices in the order given
NoRowsLoop(ctx, indices_list, st) ==
    BeforeAppended(st, RenderSeq(ctx, indices_list,
                                 [html |-> <<>>, media |-> <<>>, active |-> st.active,
                                  raised |-> FALSE]))

\* Lines 242-245: the close of a list still open after the loop
CloseOpenList(st) ==
    IF st.active = NoList THEN st
    ELSE LET closing_tag == <<Tok(CloseTag(st.active), -1, 0)>>
         IN  IF st.html_after # <<>>
             THEN [st EXCEPT !.html_after = st.html_after \o closing_tag,
                             !.emitted = st.emitted \o closing_tag]
             ELSE [st EXCEPT !.html_before = st.html_before \o closing_tag,
                             !.emitted = st.emitted \o closing_tag]

\* FinalHtml opening one disclosure element per folded piece
FinalHtmlPerPiece(html_before, html_after) ==
    LET Wrap(t) == <<Tok("<details>", -1, 0), Tok("summary Keep Reading", -1, 0), t,
                     Tok("</details>", -1, 0)>>
        F[k \in 0..Len(html_after)] ==
            IF k = 0 THEN <<>> ELSE F[k - 1] \o Wrap(html_after[k])
    IN  html_before \o F[Len(html_after)]

\* Lines 247-249
FinalHtml(html_before, html_after) ==
    IF html_after # <<>>
    THEN html_before \o <<Tok("<details>", -1, 0), Tok("summary Keep Reading", -1, 0)>>
         \o html_after \o <<Tok("</details>", -1, 0)>>
    ELSE html_before

RECURSIVE Dedup(_)
\* list(dict.fromkeys(media))
Dedup(s) ==
    IF s = <<>> THEN <<>>
    ELSE LET d == Dedup(SubSeq(s, 1, Len(s) - 1))
             x == s[Len(s)]
         IN  IF x \in Range(d) THEN d ELSE Append(d, x)

\* Lines 247-251: what parse_api_content returns when the loop left st
Returned(st) ==
    [html |-> FinalHtml(st.html_before, st.html_after),
     media |-> Dedup(st.media), raised |-> FALSE,
     html_before |-> st.html_before, html_after |-> st.html_after,
     emitted |-> st.emitted]

\* Lines 242-251, or the exception of a block passed on
Finished(st) ==
    IF st.raised
    THEN [html |-> <<>>, media |-> <<>>, raised |-> TRUE,
          html_before |-> <<>>, html_after |-> <<>>, emitted |-> <<>>]
    ELSE Returned(CloseOpenList(st))

\* Lines 215-240: the loop over the rows, or over the indices
Looped(ctx, layout_blocks, indices_list, st0) ==
    IF HasLayout(layout_blocks, "rows")
    THEN RowsLoop(ctx, FirstLayout(layout_blocks, "rows").display, Range(indices_list),
                  FirstLayout(layout_blocks, "rows").truncate_after, st0)
    ELSE NoRowsLoop(ctx, indices_list, st0)

\* parse_api_content.  The result has the returned html and media, whether
\* the call raised instead of returning, and for inspection the two buffers
\* as they were at line 247 and the log of what was appended in call order.
ParseApiContent(all_content_blocks, layout_blocks, indices_to_process, blog_name, post_id, api_key, resp) ==
    IF all_content_blocks = <<>>
    THEN [html |-> <<>>, media |-> <<>>, raised |-> FALSE,
          html_before |-> <<>>, html_after |-> <<>>, emitted |-> <<>>]
    ELSE Finished(Looped(Ctx(all_content_blocks, blog_name, post_id, api_key, resp),
                         layout_blocks,
                         IF indices_to_process.none
                         THEN RangeList(Len(all_content_blocks))
                         ELSE indices_to_process.list,
                         [html_before |-> <<>>, html_after |-> <<>>, media |-> <<>>,
                          active |-> NoList, raised |-> FALSE, emitted |-> <<>>]))

\* Lines 310-311 of save_post_to_file: the indices an answer is rendered with
AnswerIndices(content_to_parse, ask_indices) ==
    SelectSeq(RangeList(Len(content_to_parse)), LAMBDA idx : idx \notin Range(ask_indices))

\* ---------------------------------------------------------- post assembler
\* A value a dict does not have
Missing == "<missing>"

\* str(x): the id as text, "None" for a missing one
Str(x) == IF x = Missing THEN "None" ELSE x

\* A link of the chain: blog_name (the post's own key), blog (blog.name of a
\* trail item), content, layout and post_id (post.id of a trail item)
Link(blog_name, blog, content, layout, post_id) ==
    [blog_name |-> blog_name, blog |-> blog, content |-> content,
     layout |-> layout, post_id |-> post_id]

\* The post itself as the last element of the chain
SubjectLink(p) == Link(p.blog_name, "", p.content, p.layout, Missing)

\* has_trail = bool(post.get('trail'))
HasTrail(p) == p.trail # <<>>

\* Lines 275-280
IsAnswer(p) ==
    \/ p.type = "answer"
    \/ p.question # ""
    \/ LET layout_to_check == IF HasTrail(p) THEN p.trail[1].layout ELSE p.layout
       IN  HasLayout(layout_to_check, "ask")

\* Line 282
FullChain(p) == IF HasTrail(p) THEN p.trail \o <<SubjectLink(p)>> ELSE <<SubjectLink(p)>>

\* Line 286: block.get('blog_name') or block.get('blog', {}).get('name')
Username(block) == IF block.blog_name # "" THEN block.blog_name ELSE block.blog

\* Line 289: the link is passed over
Skipped(block, is_root) == Username(block) = "" \/ (~is_root /\ block.content = <<>>)

\* Lines 292-297: the fallback is taken when the text of the id is empty
CurrentPostId(p, block, is_final_reblogger) ==
    LET current_post_id == IF is_final_reblogger THEN Str(p.id) ELSE Str(block.post_id)
    IN  IF current_post_id = "" THEN Str(p.id) ELSE current_post_id

\* A fragment appended to html_body: its kind, the chain link it is for, the
\* rendered html it wraps and whether an answer block has its header
Fragment(kind, link, html, header) ==
    [kind |-> kind, link |-> link, html |-> html, header |-> header]

Parse(block, indices, post_id) ==
    ParseApiContent(block.content, block.layout, indices, Username(block), post_id,
                    TRUE, Response(FALSE, 200, 200, "missing", TRUE, EmptyMap))

\* Lines 299-324: what the root link appends; raised when a render raised
OpHeader == Fragment("op-header", 0, <<>>, FALSE)

\* Lines 312-315: the ask and the answer of a root with an ask layout
AskAnswerFragments(p, parsed_ask, parsed_answer) ==
    [raised |-> parsed_ask.raised \/ parsed_answer.raised,
     frags |-> <<OpHeader,
                 Fragment("ask", 0, parsed_ask.html, FALSE),
                 Fragment("answer", 0, parsed_answer.html, HasTrail(p))>>]

\* Lines 317-324: the root's whole content, as an answer or as the post
ContentFragments(p, parsed_content) ==
    [raised |-> parsed_content.raised,
     frags |-> IF IsAnswer(p)
               THEN <<OpHeader,
                      Fragment("ask", 0, <<Tok("blockquote question", -1, 0)>>, FALSE),
                      Fragment("answer", 0, parsed_content.html, HasTrail(p))>>
               ELSE <<OpHeader, Fragment("op-content", 0, parsed_content.html, FALSE)>>]

RootFragments(p, block, post_id) ==
    IF IsAnswer(p) /\ HasLayout(block.layout, "ask")
    THEN AskAnswerFragments(
             p,
             Parse(block, Indices(FirstLayout(block.layout, "ask").blocks), post_id),
             Parse(block,
                   Indices(AnswerIndices(block.content,
                                         FirstLayout(block.layout, "ask").blocks)),
                   post_id))
    ELSE ContentFragments(p, Parse(block, NoIndices, post_id))

\* Suppressed for every link, not only the last
SuppressedWhenEmpty(is_final_reblogger, html) == html = <<>>

\* Line 329: not parsed_content['html'].strip(), for the final reblogger
Suppressed(is_final_reblogger, html) == is_final_reblogger /\ html = <<>>

\* Lines 326-336: what a link other than the root appends
ReblogFragment(link, is_final_reblogger, parsed_content) ==
    [raised |-> parsed_content.raised,
     frags |-> IF Suppressed(is_final_reblogger, parsed_content.html) THEN <<>>
               ELSE <<Fragment("reblog", link, parsed_content.html, FALSE)>>]

ReblogFragments(block, link, is_final_reblogger, post_id) ==
    ReblogFragment(link, is_final_reblogger, Parse(block, NoIndices, post_id))

\* ------------------------------------------------------------------- state
VARIABLES
    pc,                  \* where the modelled code is
    all_content_blocks,  \* parse_api_content: the blocks of the post
    layout_blocks,       \* parse_api_content: the layout blocks
    indices_to_process,  \* parse_api_content: None or the indices to render
    parsed,              \* parse_api_content: what the call returned
    active_list_type_ref,\* the list context shared by successive block calls
    call,                \* _process_single_block: the arguments of the last call
    result,              \* _process_single_block: what the last call returned
    n_calls,             \* how many blocks have been rendered
    text_len,            \* text branch: len(raw_text)
    formatting,          \* text branch: the block's formatting spans
    markers,             \* text branch: offset -> tags to put there
    fmt_i,               \* text branch: how many spans the loop has handled
    text_parts,          \* text branch: the pieces joined into the text
    post,                \* save_post_to_file: the post
    chain_i,             \* save_post_to_file: i, the index of the chain link at hand
    html_body,           \* save_post_to_file: the fragments appended so far
    passed               \* save_post_to_file: link and post id of each render

composeVars == <<all_content_blocks, layout_blocks, indices_to_process, parsed>>
renderVars == <<active_list_type_ref, call, result, n_calls>>
spanVars == <<text_len, formatting, markers, fmt_i, text_parts>>
saveVars == <<post, chain_i, html_body, passed>>
vars == <<pc, composeVars, renderVars, spanVars, saveVars>>

NoResult == [html |-> <<>>, media |-> <<>>, raised |-> FALSE,
             html_before |-> <<>>, html_after |-> <<>>, emitted |-> <<>>]

NoBlockResult == [html |-> <<>>, media |-> <<>>, active |-> NoList, raised |-> FALSE]

OkResponse == Response(FALSE, 200, 200, "missing", TRUE, EmptyMap)

NoCall == [block |-> Blk("none", "none", <<>>), idx |-> -1, active |-> NoList,
           blog_name |-> "", post_id |-> "", api_key |-> FALSE, resp |-> OkResponse]

ComposeIdle ==
    /\ all_content_blocks = <<>>
    /\ layout_blocks = <<>>
    /\ indices_to_process = NoIndices
    /\ parsed = NoResult

RenderIdle ==
    /\ active_list_type_ref = NoList
    /\ call = NoCall
    /\ result = NoBlockResult
    /\ n_calls = 0

NoPost == [id |-> "", type |-> "", question |-> "", blog_name |-> "",
           content |-> <<>>, layout |-> <<>>, trail |-> <<>>]

SaveIdle ==
    /\ post = NoPost
    /\ chain_i = 0
    /\ html_body = <<>>
    /\ passed = <<>>

SpanIdle ==
    /\ text_len = 0
    /\ formatting = <<>>
    /\ markers = NoMarkers
    /\ fmt_i = 0
    /\ text_parts = <<>>

\* ------------------------------------------------- inputs of the composer
\* The block kinds a post is built from
TextKinds == {Blk("text", "none", <<>>),
              Blk("text", "unordered-list-item", <<>>),
              Blk("text", "ordered-list-item", <<>>)}

ComposeKinds == TextKinds \cup {Blk("image", "none", <<"u1">>), Blk("video", "none", <<>>)}

\* The block indices 0..n-1 starting at r and wrapping round
Rotation(n, r) == [k \in 1..n |-> (k - 1 + r) % n]

\* order cut into rows after the positions of cuts
RowsOf(order, cuts) ==
    LET starts == SortedSeq({1} \cup {c + 1 : c \in cuts})
    IN  [j \in 1..Len(starts) |->
            SubSeq(order, starts[j],
                   IF j = Len(starts) THEN Len(order) ELSE starts[j + 1] - 1)]

Displays(n) ==
    {RowsOf(Rotation(n, r), cuts) : r \in 0..(n - 1), cuts \in SUBSET (1..(n - 1))}

RowsLayouts(n) ==
    {RowsLayout(d, t) : d \in Displays(n), t \in {NoTruncate} \cup (0..(n - 1))}

\* The blocks lists of an ask layout block
AskLists == {<<0>>, <<0, 1>>, <<1, 0>>}

\* The layout lists of a post: an ask block or none, a rows block or none
LayoutLists(n) ==
    LET asks == {<<>>} \cup {<<AskLayout(a)>> : a \in AskLists}
        rows == {<<>>} \cup {<<l>> : l \in RowsLayouts(n)}
    IN  {a \o r : a \in asks, r \in rows}

\* The indices save_post_to_file passes: none (lines 317, 323, 326), or the
\* ask's and the answer's when the layout has an ask block (lines 310-313)
CallIndices(blocks, layouts) ==
    IF HasLayout(layouts, "ask")
    THEN LET ask_indices == FirstLayout(layouts, "ask").blocks
         IN  {Indices(ask_indices), Indices(AnswerIndices(blocks, ask_indices))}
    ELSE {NoIndices}

\* ---------------------------------------------- the composer as a machine
InitCompose ==
    /\ pc = "call"
    /\ all_content_blocks \in [1..MaxBlocks -> ComposeKinds]
    /\ layout_blocks \in LayoutLists(MaxBlocks)
    /\ indices_to_process \in CallIndices(all_content_blocks, layout_blocks)
    /\ parsed = NoResult
    /\ RenderIdle
    /\ SpanIdle
    /\ SaveIdle

\* parse_api_content(all_content_blocks, layout_blocks, indices_to_process, ...)
ParseCall ==
    /\ pc = "call"
    /\ parsed' = ParseApiContent(all_content_blocks, layout_blocks, indices_to_process,
                                 "blog", "1", TRUE, OkResponse)
    /\ pc' = IF parsed'.raised THEN "raised" ELSE "returned"
    /\ UNCHANGED <<all_content_blocks, layout_blocks, indices_to_process, renderVars,
                   spanVars, saveVars>>

NextCompose == ParseCall

SpecCompose == InitCompose /\ [][NextCompose]_vars

\* ------------------------------------------ inputs of the block renderer
MaxVotes == 3
MaxCalls == 3

AnswerIds == {"a", "b", "c"}

\* The tallies a results payload can hold: votes for some of the answers "a"
\* and "b" (never for "c"), and with or without one vote for "z", an answer
\* the block does not display
Tallies ==
    LET some == UNION {[S -> 0..MaxVotes] : S \in SUBSET {"a", "b"}}
    IN  some \cup {[x \in DOMAIN t \cup {"z"} |-> IF x = "z" THEN 1 ELSE t[x]] : t \in some}

\* What the side-channel call can do
Responses ==
    {Response(TRUE, 200, 200, "missing", TRUE, EmptyMap),
     Response(FALSE, 500, 200, "missing", TRUE, EmptyMap),
     Response(FALSE, 200, 404, "missing", TRUE, EmptyMap),
     Response(FALSE, 200, 200, "missing", TRUE, EmptyMap),
     Response(FALSE, 200, 200, "null", TRUE, EmptyMap),
     Response(FALSE, 200, 200, "list", TRUE, EmptyMap),
     Response(FALSE, 200, 200, "map", FALSE, [x \in {"a", "b"} |-> 1])}
    \cup {Response(FALSE, 200, 200, "map", TRUE, t) : t \in Tallies}

PollKinds ==
    {PollBlk(c, a) : c \in {"", "p"}, a \in {<<>>, <<"b">>, <<"a", "b", "c">>}}

\* Blocks of no known type, and an image block without media
OtherKinds ==
    {Blk("video", "none", <<>>), Blk("image", "none", <<>>),
     Blk("video", "unordered-list-item", <<>>)}

RenderKinds == ComposeKinds \cup OtherKinds

\* ------------------------------------- the block renderer as a machine
InitRender ==
    /\ pc = "render"
    /\ ComposeIdle
    /\ RenderIdle
    /\ SpanIdle
    /\ SaveIdle

\* One _process_single_block call of the caller's loop, the list context
\* threaded from the previous call
Rendered1(block, blog_name, post_id, api_key, resp) ==
    /\ call' = [block |-> block, idx |-> n_calls, active |-> active_list_type_ref,
                blog_name |-> blog_name, post_id |-> post_id, api_key |-> api_key,
                resp |-> resp]
    /\ result' = ProcessSingleBlock(block, n_calls, active_list_type_ref,
                                    blog_name, post_id, api_key, resp)
    /\ active_list_type_ref' = result'.active
    /\ n_calls' = n_calls + 1
    /\ pc' = IF result'.raised THEN "raised" ELSE "render"
    /\ UNCHANGED <<composeVars, spanVars, saveVars>>

\* a text, image or unsupported block
RenderBlock ==
    /\ pc = "render" /\ n_calls < MaxCalls
    /\ \E block \in RenderKinds : Rendered1(block, "blog", "1", TRUE, OkResponse)

\* a poll block with every identifier and the API key there
RenderPollBlock ==
    /\ pc = "render" /\ n_calls < MaxCalls
    /\ \E block \in {b \in PollKinds : b.client_id # ""}, resp \in Responses :
          Rendered1(block, "blog", "1", TRUE, resp)

\* a poll block with the blog name, post id, poll client id or API key missing
RenderPollBlockNoIds ==
    /\ pc = "render" /\ n_calls < MaxCalls
    /\ \E block \in PollKinds, blog_name \in {"", "blog"}, post_id \in {"", "1"},
          api_key \in BOOLEAN :
          /\ block.client_id = "" \/ blog_name = "" \/ post_id = "" \/ ~api_key
          /\ Rendered1(block, blog_name, post_id, api_key,
                       Response(FALSE, 200, 200, "map", TRUE, [x \in {"a", "b"} |-> 1]))

NextRender == RenderBlock \/ RenderPollBlock \/ RenderPollBlockNoIds

SpecRender == InitRender /\ [][NextRender]_vars

\* ------------------------------------------- inputs of the span formatter
MaxLen == 3
MaxSpans == 2

\* bold and italic of the types with tags, and one type without
SpanTypes == {"bold", "italic", "color"}

Spans == {Span(a, b, t) : a \in 0..MaxLen, b \in 0..MaxLen, t \in SpanTypes}

Formattings ==
    UNION {[1..n -> {f \in Spans : f.start < f.end}] : n \in 0..MaxSpans}

\* -------------------------------------- the span formatter as a machine
InitSpan ==
    /\ pc = "mark"
    /\ ComposeIdle
    /\ RenderIdle
    /\ SaveIdle
    /\ text_len = MaxLen
    /\ formatting \in Formattings
    /\ markers = NoMarkers
    /\ fmt_i = 0
    /\ text_parts = <<>>

\* for fmt in formatting: one iteration
MarkNext ==
    /\ pc = "mark" /\ fmt_i < Len(formatting)
    /\ markers' = MarkSpan(markers, formatting[fmt_i + 1])
    /\ fmt_i' = fmt_i + 1
    /\ UNCHANGED <<pc, composeVars, renderVars, saveVars, text_len, formatting,
                   text_parts>>

\* the loop over sorted(markers.keys()) and the final append
JoinParts ==
    /\ pc = "mark" /\ fmt_i = Len(formatting)
    /\ text_parts' = TextParts(markers, text_len)
    /\ pc' = "joined"
    /\ UNCHANGED <<composeVars, renderVars, saveVars, text_len, formatting, markers,
                   fmt_i>>

NextSpan == MarkNext \/ JoinParts

SpecSpan == InitSpan /\ [][NextSpan]_vars

\* ------------------------------------------ inputs of the post assembler
MaxTrail == 2

\* What a link can hold: nothing, a paragraph, a block that renders nothing,
\* two paragraphs
Contents == {<<>>, <<Blk("text", "none", <<>>)>>, <<Blk("video", "none", <<>>)>>,
             <<Blk("text", "none", <<>>), Blk("text", "none", <<>>)>>}

\* The layout of the root link: none, or an ask of block 0
RootLayouts == {<<>>, <<AskLayout(<<0>>)>>}

\* Trail items: with or without a blog name, post.id "7", empty or missing
TrailItems ==
    {Link("", blog, content, <<>>, id) :
        blog \in {"", "t"}, content \in Contents, id \in {"7", "", Missing}}

Trails == UNION {[1..n -> TrailItems] : n \in 0..MaxTrail}

\* The post with layout put on its root link
PostOf(type, blog_name, content, trail, layout) ==
    [id |-> "100", type |-> type, question |-> "", blog_name |-> blog_name,
     content |-> content,
     layout |-> IF trail = <<>> THEN layout ELSE <<>>,
     trail |-> [k \in DOMAIN trail |->
                   IF k = 1 THEN [trail[k] EXCEPT !.layout = layout] ELSE trail[k]]]

\* ------------------------------------- the post assembler as a machine
InitSave ==
    /\ pc = "chain"
    /\ ComposeIdle
    /\ RenderIdle
    /\ SpanIdle
    /\ post \in {PostOf(type, blog_name, content, trail, layout) :
                    type \in {"text", "answer"}, blog_name \in {"", "me"},
                    content \in Contents, trail \in Trails, layout \in RootLayouts}
    /\ chain_i = 0
    /\ html_body = <<>>
    /\ passed = <<>>

AtLink == pc = "chain" /\ chain_i < Len(FullChain(post))
Block == FullChain(post)[chain_i + 1]
IsFinalReblogger == chain_i = Len(FullChain(post)) - 1

\* Line 289: continue
SkipLink ==
    /\ AtLink /\ Skipped(Block, chain_i = 0)
    /\ chain_i' = chain_i + 1
    /\ UNCHANGED <<pc, post, html_body, passed, composeVars, renderVars, spanVars>>

\* What an iteration that renders leaves behind
Appended(r, post_id) ==
    /\ passed' = Append(passed, [link |-> chain_i, post_id |-> post_id])
    /\ IF r.raised
       THEN pc' = "raised" /\ UNCHANGED <<chain_i, html_body>>
       ELSE pc' = pc /\ chain_i' = chain_i + 1 /\ html_body' = html_body \o r.frags
    /\ UNCHANGED <<post, composeVars, renderVars, spanVars>>

\* The iteration for the root link (lines 299-324)
RootLink ==
    /\ AtLink /\ ~Skipped(Block, chain_i = 0) /\ chain_i = 0
    /\ LET post_id == CurrentPostId(post, Block, IsFinalReblogger)
       IN  Appended(RootFragments(post, Block, post_id), post_id)

\* The iteration for a later link (lines 325-336)
ReblogLink ==
    /\ AtLink /\ ~Skipped(Block, chain_i = 0) /\ chain_i > 0
    /\ LET post_id == CurrentPostId(post, Block, IsFinalReblogger)
       IN  Appended(ReblogFragments(Block, chain_i, IsFinalReblogger, post_id), post_id)

\* Lines 338-345 and the write: the body is complete
FinishPost ==
    /\ pc = "chain" /\ chain_i = Len(FullChain(post))
    /\ pc' = "saved"
    /\ UNCHANGED <<post, chain_i, html_body, passed, composeVars, renderVars, spanVars>>

NextSave == SkipLink \/ RootLink \/ ReblogLink \/ FinishPost

SpecSave == InitSave /\ [][NextSave]_vars

\* ============================================================== the claims
\* Vocabulary of the claims about the composer
IndicesList ==
    IF indices_to_process.none THEN RangeList(Len(all_content_blocks))
    ELSE indices_to_process.list

HasRows == HasLayout(layout_blocks, "rows")
Display == FirstLayout(layout_blocks, "rows").display
TruncateAfter == FirstLayout(layout_blocks, "rows").truncate_after

\* The indices of a row that are among the indices to process
Surviving(row) == SelectSeq(row, LAMBDA i : i \in Range(IndicesList))

NonSkipped == {p \in DOMAIN Display : Surviving(Display[p]) # <<>>}

RECURSIVE Flatten(_)
Flatten(ss) == IF ss = <<>> THEN <<>> ELSE Head(ss) \o Flatten(Tail(ss))

\* The order in which one call reaches the blocks
RenderOrder ==
    IF HasRows THEN Flatten([p \in DOMAIN Display |-> Surviving(Display[p])])
    ELSE IndicesList

Tags(h) == [k \in DOMAIN h |-> h[k].tag]

AllText == \A k \in DOMAIN all_content_blocks : all_content_blocks[k].type = "text"

ListKind(b) ==
    IF b.subtype = "unordered-list-item" THEN "ul"
    ELSE IF b.subtype = "ordered-list-item" THEN "ol" ELSE ""

RECURSIVE ExpectedListTags(_, _)
\* What the claim says a sequence of text blocks produces: a list is opened
\* at the first item of a run, closed after its last item, never in between
ExpectedListTags(order, open) ==
    IF order = <<>> THEN (IF open # "" THEN <<CloseTag(open)>> ELSE <<>>)
    ELSE LET kind == ListKind(all_content_blocks[Head(order) + 1])
         IN  (IF open # "" /\ kind # open THEN <<CloseTag(open)>> ELSE <<>>)
             \o (IF kind # "" /\ kind # open THEN <<OpenTag(kind)>> ELSE <<>>)
             \o <<IF kind # "" THEN "li" ELSE "p">>
             \o ExpectedListTags(Tail(order), kind)

WithoutContainers(h) ==
    SelectSeq(h, LAMBDA t : t.tag \notin {"<div image-row>", "</div>"})

\* C1: in one parse_api_content call over text blocks, what is appended in
\* call order has, for every maximal run of N consecutive list items of one
\* kind, one opening tag, N <li> and one closing tag; a list item of the
\* other kind closes the open list and opens a new one; a block that is no
\* list item closes the open list before its own html.
C1_ListRuns ==
    (pc = "returned" /\ AllText) =>
        Tags(WithoutContainers(parsed.emitted)) = ExpectedListTags(RenderOrder, "")

C1_Witness ==
    /\ pc = "returned" /\ AllText
    /\ Tags(WithoutContainers(parsed.emitted))
         = <<"<ul>", "li", "li", "</ul>", "<ol>", "li", "</ol>">>

\* Positions of the returned html
TagPos(tag) == {k \in DOMAIN parsed.html : parsed.html[k].tag = tag}

InsideDetails(k) ==
    \E d \in TagPos("<details>"), e \in TagPos("</details>") : d < k /\ k < e

BeforeDetails(k) ==
    /\ \A d \in TagPos("<details>") : k < d
    /\ ~InsideDetails(k)

\* The pieces of the returned html that a row produced
RowPieces(rel) == {k \in DOMAIN parsed.html : parsed.html[k].blk \in Range(rel)}

FoldedRows == {p \in NonSkipped : Min(Surviving(Display[p])) > TruncateAfter}

\* The blocks that render a piece of their own
OwnPiece(i) ==
    \/ all_content_blocks[i + 1].type = "text"
    \/ all_content_blocks[i + 1].type = "image" /\ all_content_blocks[i + 1].media # <<>>

\* C2: with a rows layout and truncate_after = T, the html of every row whose
\* minimum surviving index is <= T is outside the disclosure element, that of
\* every other rendered row inside it; the element (and its Keep Reading
\* label) appears once when a folded row produced html, never otherwise, and
\* after all the visible rows' html.
C2_Truncation ==
    (pc = "returned" /\ HasRows /\ TruncateAfter # NoTruncate) =>
        /\ \A p \in NonSkipped :
              LET rel == Surviving(Display[p])
              IN  /\ \A i \in Range(rel) : OwnPiece(i) =>
                        \E k \in DOMAIN parsed.html : parsed.html[k].blk = i
                  /\ \A k \in RowPieces(rel) :
                        IF Min(rel) <= TruncateAfter THEN BeforeDetails(k)
                        ELSE InsideDetails(k)
        /\ LET n == IF \E p \in FoldedRows : RowPieces(Surviving(Display[p])) # {}
                    THEN 1 ELSE 0
           IN  /\ Cardinality(TagPos("<details>")) = n
               /\ Cardinality(TagPos("summary Keep Reading")) = n
               /\ Cardinality(TagPos("</details>")) = n

C2_Witness ==
    /\ pc = "returned" /\ HasRows /\ TruncateAfter # NoTruncate
    /\ Cardinality({p \in FoldedRows : RowPieces(Surviving(Display[p])) # {}}) >= 2
    /\ \E p \in NonSkipped \ FoldedRows : RowPieces(Surviving(Display[p])) # {}
    /\ Cardinality(TagPos("<details>")) = 1

BufferPieces(buffer, rel) == {k \in DOMAIN buffer : buffer[k].blk \in Range(rel)}

\* C9 as claimed: truncate_after = T is a row index, rows at positions 0..T of
\* the rows list are outside the disclosure element and the later rows inside
\* it (stated for rows that list all the blocks in index order).
C9_RowPosition ==
    (/\ pc = "returned" /\ HasRows /\ TruncateAfter # NoTruncate
     /\ indices_to_process.none
     /\ Flatten(Display) = RangeList(Len(all_content_blocks))) =>
        \A p \in NonSkipped :
            LET rel == Surviving(Display[p])
            IN  IF p - 1 <= TruncateAfter
                THEN BufferPieces(parsed.html_after, rel) = {}
                ELSE BufferPieces(parsed.html_before, rel) = {}

\* C9 amended: truncate_after = T is compared with block indices. A rendered
\* row goes to the visible buffer exactly when the minimum of its surviving
\* block indices is <= T, wherever the row stands in the rows list, and to
\* the folded buffer otherwise.
C9_BlockIndexThreshold ==
    (pc = "returned" /\ HasRows /\ TruncateAfter # NoTruncate) =>
        \A p \in NonSkipped :
            LET rel == Surviving(Display[p])
                here == IF Min(rel) <= TruncateAfter THEN parsed.html_before
                        ELSE parsed.html_after
                there == IF Min(rel) <= TruncateAfter THEN parsed.html_after
                         ELSE parsed.html_before
            IN  /\ BufferPieces(there, rel) = {}
                /\ (Len(rel) > 1 \/ \E i \in Range(rel) : OwnPiece(i))
                      => BufferPieces(here, rel) # {}

\* A row of two blocks at position 1 <= T whose minimum index 2 is > T
C9_Witness ==
    /\ pc = "returned" /\ HasRows /\ TruncateAfter # NoTruncate
    /\ \E p \in NonSkipped :
          LET rel == Surviving(Display[p])
          IN  /\ Len(rel) > 1 /\ p - 1 <= TruncateAfter /\ Min(rel) > TruncateAfter
              /\ BufferPieces(parsed.html_after, rel) # {}

IsContent(t) == t.tag \in {"p", "li", "img"}

\* The blocks whose own pieces the html holds, in the html's order
Rendered(h) == LET c == SelectSeq(h, IsContent) IN [k \in DOMAIN c |-> c[k].blk]

Ascending(list) == \A j, k \in DOMAIN list : j < k => list[j] < list[k]

\* C10 as claimed: without a rows layout the blocks of the index subset are
\* rendered each once in ascending index order, for every subset the function
\* is called with.
C10_AscendingOrder ==
    (pc = "returned" /\ ~HasRows) =>
        Rendered(parsed.html) = SelectSeq(SortedSeq(Range(IndicesList)), OwnPiece)

\* C10 amended: without a rows layout the blocks are rendered once per entry
\* of the index list, in the order of the list. That order is ascending for
\* the default (all indices) and for the answer indices of save_post_to_file;
\* the ask indices are rendered in the order the ask layout block gives them.
C10_ListOrder ==
    (pc = "returned" /\ ~HasRows) =>
        /\ Rendered(parsed.html) = SelectSeq(IndicesList, OwnPiece)
        /\ (\/ indices_to_process.none
            \/ /\ HasLayout(layout_blocks, "ask")
               /\ indices_to_process.list # FirstLayout(layout_blocks, "ask").blocks)
              => Ascending(IndicesList)

C10_Witness ==
    /\ pc = "returned" /\ ~HasRows
    /\ HasLayout(layout_blocks, "ask")
    /\ indices_to_process = Indices(<<1, 0>>)
    /\ Rendered(parsed.html) = <<1, 0>>

\* Vocabulary of the claims about the block renderer
IsPollCall == n_calls > 0 /\ call.block.type = "poll"

\* The fetch gets as far as a mapping of numbers
FetchSucceeds ==
    /\ call.blog_name # "" /\ call.post_id # "" /\ call.block.client_id # ""
    /\ call.api_key
    /\ ~call.resp.exc
    /\ call.resp.status_code = 200 /\ call.resp.meta_status = 200
    /\ call.resp.shape = "map" /\ call.resp.numeric

PollItems == SelectSeq(result.html, LAMBDA t : t.tag = "poll-li")
PollTotals == SelectSeq(result.html, LAMBDA t : t.tag = "poll-total-votes")

\* C4: rendering a poll block never raises because of the fetch: for every
\* failing outcome of the side-channel call the block is rendered, every
\* answer with 0 votes.
C4_PollNeverRaises ==
    IsPollCall =>
        /\ ~result.raised
        /\ ~FetchSucceeds =>
              /\ Len(PollItems) = Len(call.block.answers)
              /\ \A k \in DOMAIN PollItems : PollItems[k].val = 0
              /\ PollTotals = <<>>

Abs(x) == IF x < 0 THEN -x ELSE x

\* C5: with the tally map M and totalVotes the sum of its values, every
\* displayed answer's percentage is an integer nearest to
\* votes / totalVotes * 100, votes being M[client_id] or 0 when absent; it is
\* 0 when totalVotes is 0; the total-votes line is there exactly when
\* totalVotes > 0.
C5_Percentages ==
    (IsPollCall /\ ~result.raised) =>
        LET M == IF FetchSucceeds THEN call.resp.tally ELSE EmptyMap
            totalVotes == SumValues(M)
            answers == call.block.answers
        IN  /\ Len(PollItems) = Len(answers)
            /\ \A k \in DOMAIN PollItems :
                  LET votes == IF answers[k] \in DOMAIN M THEN M[answers[k]] ELSE 0
                      shown == PollItems[k].val
                  IN  IF totalVotes = 0 THEN shown = 0
                      ELSE 2 * Abs(100 * votes - shown * totalVotes) <= totalVotes
            /\ IF totalVotes > 0
               THEN Len(PollTotals) = 1 /\ PollTotals[1].val = totalVotes
               ELSE PollTotals = <<>>

\* votes [3, 1, 0] of 4 shown as 75, 25 and 0 per cent
C5_Witness ==
    /\ IsPollCall /\ ~result.raised /\ FetchSucceeds
    /\ call.block.answers = <<"a", "b", "c">>
    /\ call.resp.tally = [x \in {"a", "b"} |-> IF x = "a" THEN 3 ELSE 1]
    /\ [k \in DOMAIN PollItems |-> PollItems[k].val] = <<75, 25, 0>>
    /\ Len(PollTotals) = 1 /\ PollTotals[1].val = 4

\* A call with a block that is no text block, no poll, no image with media
IsOtherCall ==
    /\ n_calls > 0
    /\ call.block.type \notin {"text", "poll"}
    /\ ~(call.block.type = "image" /\ call.block.media # <<>>)

\* C8 as claimed: a block of no supported type renders nothing, empty html and
\* an empty media list, whatever the list context on entry, and rendering goes
\* on.
C8_RendersNothing ==
    IsOtherCall =>
        /\ ~result.raised /\ pc = "render"
        /\ result.html = <<>>
        /\ result.media = <<>>

\* C8 amended: a block of no supported type does not raise, returns an empty
\* media list and no html of its own: its html is empty when no list was open
\* on entry (or the block carries a list-item subtype), and otherwise is
\* exactly the closing tag of the list that was open, which it leaves closed;
\* rendering goes on.
C8_ClosesOpenListOnly ==
    IsOtherCall =>
        LET item == call.block.subtype \in {"ordered-list-item", "unordered-list-item"}
        IN  /\ ~result.raised /\ pc = "render"
            /\ result.media = <<>>
            /\ Tags(result.html) = IF call.active # "" /\ ~item
                                   THEN <<CloseTag(call.active)>> ELSE <<>>
            /\ active_list_type_ref = IF item THEN call.active ELSE ""

C8_Witness ==
    /\ IsOtherCall /\ call.active = "ul" /\ call.block.type = "video"
    /\ Tags(result.html) = <<"</ul>">>
    /\ active_list_type_ref = "" /\ pc = "render"

\* Vocabulary of the claim about the span formatter
TaggedSpans == SelectSeq(formatting, LAMBDA f : InTags(f.type))

\* every two spans are disjoint or one contains the other
Laminar ==
    \A j, k \in DOMAIN TaggedSpans :
        LET f == TaggedSpans[j]
            g == TaggedSpans[k]
        IN  \/ f.end <= g.start \/ g.end <= f.start
            \/ f.start <= g.start /\ g.end <= f.end
            \/ g.start <= f.start /\ f.end <= g.end

RECURSIVE Nesting(_, _, _)
\* The tags of parts read with a stack: ok is whether every closing tag met
\* the most recently opened unclosed tag, of its type; pairs are the spans
\* (start, end, type) that matching tags enclose; open is what was left open
Nesting(parts, stack, pairs) ==
    IF parts = <<>> THEN [ok |-> TRUE, pairs |-> pairs, open |-> stack]
    ELSE LET part == Head(parts)
         IN  IF part.kind = "open"
             THEN Nesting(Tail(parts), <<part>> \o stack, pairs)
             ELSE IF part.kind = "close"
             THEN IF stack # <<>> /\ Head(stack).type = part.type
                  THEN Nesting(Tail(parts), Tail(stack),
                               Append(pairs, Span(Head(stack).at, part.at, part.type)))
                  ELSE [ok |-> FALSE, pairs |-> pairs, open |-> stack]
             ELSE Nesting(Tail(parts), stack, pairs)

Count(seq, x) == Cardinality({k \in DOMAIN seq : seq[k] = x})

\* C6: for spans that are pairwise disjoint or nested, in any order, the tags
\* of the text are well formed: each opening tag, put at its span's start, has
\* one matching closing tag at its span's end, and tags close in LIFO order.
C6_WellFormed ==
    (pc = "joined" /\ Laminar) =>
        LET n == Nesting(text_parts, <<>>, <<>>)
        IN  /\ n.ok /\ n.open = <<>>
            /\ \A f \in Range(TaggedSpans) : Count(n.pairs, f) = Count(TaggedSpans, f)
            /\ Len(n.pairs) = Len(TaggedSpans)

\* Vocabulary of the claims about the post assembler
Chain == FullChain(post)

\* A block of the content list renders a piece of its own
Own(content, idx) ==
    \/ content[idx + 1].type \in {"text", "poll"}
    \/ content[idx + 1].type = "image" /\ content[idx + 1].media # <<>>

\* The content of a link renders to nothing
RendersNothing(content) == \A k \in DOMAIN content : ~Own(content, k - 1)

\* The blocks of a link's content that render, in index order
OwnBlocks(content) == SelectSeq(RangeList(Len(content)), LAMBDA idx : Own(content, idx))

ThreeLinks ==
    /\ Len(post.trail) = 2
    /\ \A k \in DOMAIN Chain : Username(Chain[k]) # "" /\ Chain[k].content # <<>>

\* C3: for a chain trail[0], trail[1], subject post, all with an author name
\* and content, the fragments are, in this order: the original-poster header
\* and trail[0]'s content, one reblog block for trail[1], one reblog block for
\* the subject post; the last is left out exactly when the subject's rendered
\* html is empty; nothing else is reordered or duplicated.
C3_ChainOrder ==
    (pc = "saved" /\ ThreeLinks) =>
        LET root == IF IsAnswer(post) THEN <<"ask", "answer">> ELSE <<"op-content">>
            last == IF RendersNothing(post.content) THEN <<>> ELSE <<"reblog">>
            n == 1 + Len(root)
        IN  /\ [k \in DOMAIN html_body |-> html_body[k].kind]
                 = <<"op-header">> \o root \o <<"reblog">> \o last
            /\ \A k \in 1..n : html_body[k].link = 0
            /\ Rendered(html_body[n].html)
                 = SelectSeq(OwnBlocks(Chain[1].content),
                             LAMBDA idx : Len(root) = 1 \/ ~HasLayout(Chain[1].layout, "ask")
                                          \/ idx # 0)
            /\ html_body[n + 1].link = 1
            /\ Rendered(html_body[n + 1].html) = OwnBlocks(Chain[2].content)
            /\ last # <<>> =>
                  /\ html_body[n + 2].link = 2
                  /\ Rendered(html_body[n + 2].html) = OwnBlocks(Chain[3].content)

\* A chain of three whose middle link renders to nothing and is kept, and
\* whose subject renders to nothing and is left out
C3_Witness ==
    /\ pc = "saved" /\ ThreeLinks
    /\ RendersNothing(post.content) /\ RendersNothing(Chain[2].content)
    /\ [k \in DOMAIN html_body |-> html_body[k].kind] = <<"op-header", "op-content", "reblog">>
    /\ html_body[3].link = 1

\* C7: the post id passed to the renderer for a chain link is the subject
\* post's id for the final link, the link's embedded post.id for any other
\* link, and the subject post's id when such a link has no embedded post id;
\* it is never a value that is neither of the two.
C7_PostIdResolution ==
    \A k \in DOMAIN passed :
        LET block == Chain[passed[k].link + 1]
            final == passed[k].link = Len(Chain) - 1
        IN  /\ passed[k].post_id =
                  IF final \/ block.post_id \in {Missing, ""} THEN post.id
                  ELSE block.post_id
            /\ passed[k].post_id \in {post.id, block.post_id}

\* Vocabulary of the claims about the final closing tag and about nesting
ListOpens == {"<ul>", "<ol>"}
ListCloses == {"</ul>", "</ol>"}

\* The list tags the blocks of the rows appended, in call order
RowListTags ==
    SelectSeq(parsed.emitted,
              LAMBDA t : t.blk # -1 /\ t.tag \in ListOpens \cup ListCloses)

\* The rows were finished with a list still open: the last list tag a block
\* appended opened a list
OpenAfterRows == RowListTags # <<>> /\ RowListTags[Len(RowListTags)].tag \in ListOpens

\* The position in the rows list of the row rendered last
LastRow == -SetMin({-p : p \in NonSkipped})

LastRowFolded == Folded(Surviving(Display[LastRow]), TruncateAfter)

\* The closing tags in a buffer that no block appended
FinalCloses(buffer) ==
    {k \in DOMAIN buffer : buffer[k].blk = -1 /\ buffer[k].tag \in ListCloses}

\* C11: when the rows are finished with a list still open, exactly one closing
\* tag for that list is appended after the rows, at the end of the buffer
\* (visible or folded) that received the row rendered last, and none to the
\* other buffer, whatever the order of visible and folded rows.
C11_CloseInLastBuffer ==
    (pc = "returned" /\ HasRows /\ OpenAfterRows) =>
        LET last == IF LastRowFolded THEN parsed.html_after ELSE parsed.html_before
            other == IF LastRowFolded THEN parsed.html_before ELSE parsed.html_after
            open == RowListTags[Len(RowListTags)].tag
        IN  /\ FinalCloses(last) = {Len(last)}
            /\ FinalCloses(other) = {}
            /\ last[Len(last)].tag = (IF open = "<ul>" THEN "</ul>" ELSE "</ol>")

\* Positions of the list tags in the returned html
ListOpenPos == {k \in DOMAIN parsed.html : parsed.html[k].tag \in ListOpens}
ListClosePos == {k \in DOMAIN parsed.html : parsed.html[k].tag \in ListCloses}

\* The closing tag that ends the list opened at k: the first one after k
MatchingClose(k) == SetMin({c \in ListClosePos : c > k})

\* Position k is in the disclosure element
InFold(k) == \E d \in TagPos("<details>"), e \in TagPos("</details>") : d < k /\ k < e

\* The multi-column row containers open at position k
RowContainerAround(k) ==
    {d \in TagPos("<div image-row>") : d < k /\ \A e \in TagPos("</div>") : e > d => e > k}

\* C12: in the returned html every list that is opened is closed, no list is
\* opened while another is open, a list opened in the visible part is closed
\* in the visible part and one opened in the disclosure element is closed in
\* it, and a list opened in a multi-column row container is closed before the
\* container's closing tag.
C12_ListsWellNested ==
    pc = "returned" =>
        \A k \in ListOpenPos :
            /\ \E c \in ListClosePos : c > k
            /\ \A j \in ListOpenPos : ~(k < j /\ j < MatchingClose(k))
            /\ InFold(k) <=> InFold(MatchingClose(k))
            /\ RowContainerAround(k) \subseteq RowContainerAround(MatchingClose(k))

====
